---- MODULE Spec2Model ----
\* Model of colossalai/tensor/utils.py: the three sharding-layout simulators
\* (all_gather_simulator, all_to_all_simulator, shard_simulator) over Python
\* list objects, and the module helpers named_params_with_colotensor and
\* convert_parameter over a small nn.Module tree.
EXTENDS Integers, Sequences, FiniteSets, TLC

VARIABLES heap, pre, post, args, ret, op, pick, layout,
          attrs, hasChild, coloIsTensor, nextId, call, preAttrs, log, yielded,
          gen, genAttrs

vars == <<heap, pre, post, args, ret, op, pick, layout,
          attrs, hasChild, coloIsTensor, nextId, call, preAttrs, log, yielded,
          gen, genAttrs>>

simVars == <<heap, pre, post, args, ret, pick>>
modVars == <<attrs, hasChild, coloIsTensor, nextId, call, preAttrs, log, yielded,
            gen, genAttrs>>

----------------------------------------------------------------------------
\* Bounds of the model.

\* Mesh axes are 0..MaxAxis.
MaxAxis == 2
\* Longest shard_list a caller passes in.
MaxLen == 2
\* Longest legal_sharding_dims a caller passes in.
MaxDims == 3
\* Largest object id convert_parameter may allocate for a wrapped handle.
MaxId == 4

Axes == 0..MaxAxis

\* The tensor dimension index carried in a target pair (ignored by the code).
TensorDims == {0, 1}

\* All Python lists of mesh axes of length at most n.
Lists(n) == UNION {[1..k -> Axes] : k \in 0..n}

StrictlyIncreasing(s) == \A i \in 1..(Len(s) - 1) : s[i] < s[i + 1]

Last(s) == s[Len(s)]

----------------------------------------------------------------------------
\* Python list objects: heap[r] is the content of the list object with id r.
\* A new list gets the next id.

\* shard_list[:-1]
DropLast(s) == SubSeq(s, 1, Len(s) - 1)

\* mutation of all_gather_simulator: `del shard_list[-1]; return shard_list`
AllGatherInPlace(h, target_pair) ==
    LET shard_list == target_pair[2]
    IN  [heap |-> [h EXCEPT ![shard_list] = DropLast(h[shard_list])],
         ret  |-> shard_list]

\* mutation of all_gather_simulator: `shard_list[1:]`
AllGatherDropFirst(h, target_pair) ==
    LET shard_list == target_pair[2]
    IN  [heap |-> Append(h, SubSeq(h[shard_list], 2, Len(h[shard_list]))),
         ret  |-> Len(h) + 1]

all_gather_simulator(h, target_pair) ==
    LET shard_list == target_pair[2]
        new_shard_list == Len(h) + 1
    IN  [heap |-> Append(h, DropLast(h[shard_list])),
         ret  |-> new_shard_list]

\* mutation of all_to_all_simulator: always extends the back list
AllToAllAlwaysBack(h, f_target_pair, b_target_pair) ==
    LET f_shard_list == f_target_pair[2]
        b_shard_list == b_target_pair[2]
        h1 == [h EXCEPT ![b_shard_list] = h[b_shard_list] \o h[f_shard_list]]
    IN  [heap |-> Append(h1, <<>>), ret |-> <<Len(h1) + 1, b_shard_list>>]

all_to_all_simulator(h, f_target_pair, b_target_pair) ==
    LET f_shard_list == f_target_pair[2]
        b_shard_list == b_target_pair[2]
    IN  IF Len(h[b_shard_list]) = 0
        THEN \* b_shard_list.extend(f_shard_list); f_shard_list = []
             LET h1 == [h EXCEPT ![b_shard_list] =
                                    h[b_shard_list] \o h[f_shard_list]]
             IN  [heap |-> Append(h1, <<>>),
                  ret  |-> <<Len(h1) + 1, b_shard_list>>]
        ELSE \* f_shard_list.extend(b_shard_list); b_shard_list = []
             LET h1 == [h EXCEPT ![f_shard_list] =
                                    h[f_shard_list] \o h[b_shard_list]]
             IN  [heap |-> Append(h1, <<>>),
                  ret  |-> <<f_shard_list, Len(h1) + 1>>]

\* The loop of shard_simulator from index i of legal_sharding_dims on;
\* acc is shard_list_list (the ids of the lists appended so far).
RECURSIVE ShardLoop(_, _, _, _, _)
ShardLoop(h, shard_list, dims, i, acc) ==
    IF i > Len(h[dims])
    THEN [heap |-> h, ret |-> acc]
    ELSE LET dim == h[dims][i]
         IN  IF Len(h[shard_list]) # 0 /\ dim <= Last(h[shard_list])
             THEN ShardLoop(h, shard_list, dims, i + 1, acc)
             ELSE ShardLoop(Append(h, h[shard_list] \o <<dim>>),
                            shard_list, dims, i + 1,
                            Append(acc, Len(h) + 1))

\* mutation of the loop: the ordering test is `dim < shard_list[-1]`
RECURSIVE ShardLoopLax(_, _, _, _, _)
ShardLoopLax(h, shard_list, dims, i, acc) ==
    IF i > Len(h[dims])
    THEN [heap |-> h, ret |-> acc]
    ELSE LET dim == h[dims][i]
         IN  IF Len(h[shard_list]) # 0 /\ dim < Last(h[shard_list])
             THEN ShardLoopLax(h, shard_list, dims, i + 1, acc)
             ELSE ShardLoopLax(Append(h, h[shard_list] \o <<dim>>),
                               shard_list, dims, i + 1,
                               Append(acc, Len(h) + 1))

ShardSimulatorLax(h, target_pair, legal_sharding_dims) ==
    ShardLoopLax(h, target_pair[2], legal_sharding_dims, 1, <<>>)

\* mutation of shard_simulator: `new_shard_list = [dim] + shard_list`
RECURSIVE ShardLoopPrepend(_, _, _, _, _)
ShardLoopPrepend(h, shard_list, dims, i, acc) ==
    IF i > Len(h[dims])
    THEN [heap |-> h, ret |-> acc]
    ELSE LET dim == h[dims][i]
         IN  IF Len(h[shard_list]) # 0 /\ dim <= Last(h[shard_list])
             THEN ShardLoopPrepend(h, shard_list, dims, i + 1, acc)
             ELSE ShardLoopPrepend(Append(h, <<dim>> \o h[shard_list]),
                                   shard_list, dims, i + 1,
                                   Append(acc, Len(h) + 1))

ShardSimulatorPrepend(h, target_pair, legal_sharding_dims) ==
    ShardLoopPrepend(h, target_pair[2], legal_sharding_dims, 1, <<>>)

shard_simulator(h, target_pair, legal_sharding_dims) ==
    ShardLoop(h, target_pair[2], legal_sharding_dims, 1, <<>>)

----------------------------------------------------------------------------
\* Values the state of the other parts takes while one part runs.

SimIdle ==
    /\ heap = <<>> /\ pre = <<>> /\ post = <<>>
    /\ args = <<>> /\ ret = <<>> /\ pick = 0

LayoutIdle == layout = <<>>

\* No generator of named_params_with_colotensor exists.
NoGen ==
    [state |-> "none", module |-> 0, prefix |-> <<>>, recurse |-> FALSE,
     i |-> 0, memo |-> {}, pmemo |-> {}, dirty |-> FALSE]

ModIdle ==
    /\ attrs = <<>> /\ hasChild = FALSE /\ coloIsTensor = FALSE
    /\ nextId = 0 /\ call = <<>> /\ preAttrs = <<>>
    /\ log = <<>> /\ yielded = <<>>
    /\ gen = NoGen /\ genAttrs = <<>>

----------------------------------------------------------------------------
\* A caller of shard_simulator and all_gather_simulator.  It holds a
\* shard_list (object 1) and a legal_sharding_dims (object 2), makes one
\* call, and may then change a returned list or gather a returned candidate.

InitSim ==
    /\ \E shard_list \in Lists(MaxLen), dims \in Lists(MaxDims) :
           heap = <<shard_list, dims>>
    /\ \E d \in TensorDims : args = <<<<d, 1>>, 2>>
    /\ pre = heap /\ post = heap
    /\ ret = <<>> /\ op = "init" /\ pick = 0
    /\ LayoutIdle /\ ModIdle

AllGather ==
    /\ op = "init"
    /\ LET r == all_gather_simulator(heap, args[1])
       IN  /\ heap' = r.heap
           /\ post' = r.heap
           /\ ret' = <<r.ret>>
    /\ op' = "all_gather"
    /\ UNCHANGED <<pre, args, pick, layout, modVars>>

Shard ==
    /\ op = "init"
    /\ LET r == shard_simulator(heap, args[1], args[2])
       IN  /\ heap' = r.heap
           /\ post' = r.heap
           /\ ret' = r.ret
    /\ op' = "shard"
    /\ UNCHANGED <<pre, args, pick, layout, modVars>>

\* The caller appends an axis to one of the lists it got back.
ChangeReturned ==
    /\ op \in {"all_gather", "shard"}
    /\ \E k \in 1..Len(ret), x \in {0, MaxAxis} :
           /\ heap' = [heap EXCEPT ![ret[k]] = Append(@, x)]
           /\ pick' = k
    /\ op' = "changed"
    /\ UNCHANGED <<pre, post, args, ret, layout, modVars>>

\* The caller gathers one of the candidates shard_simulator returned.
GatherCandidate ==
    /\ op = "shard"
    /\ \E k \in 1..Len(ret) :
           LET r == all_gather_simulator(heap, <<args[1][1], ret[k]>>)
           IN  /\ heap' = r.heap
               /\ ret' = <<r.ret>>
               /\ pick' = k
    /\ op' = "round_trip"
    /\ UNCHANGED <<pre, post, args, layout, modVars>>

NextSim == AllGather \/ Shard \/ ChangeReturned \/ GatherCandidate

SpecSim == InitSim /\ [][NextSim]_vars

----------------------------------------------------------------------------
\* A caller of all_to_all_simulator.  It holds the lists of two tensor
\* dimensions: a front list (object 1) and a back list (object 2, or object 1
\* again when both dimensions were given one list object).  The front
\* pairing is the one of the lower tensor dimension.

InitA2A ==
    /\ \/ \E f \in Lists(MaxLen), b \in Lists(MaxLen) :
              /\ heap = <<f, b>>
              /\ \E i \in TensorDims : \E j \in {x \in TensorDims : x > i} :
                     args = <<<<i, 1>>, <<j, 2>>>>
       \/ \E f \in Lists(MaxLen) :
              /\ heap = <<f>>
              /\ \E i \in TensorDims : \E j \in {x \in TensorDims : x > i} :
                     args = <<<<i, 1>>, <<j, 1>>>>
    /\ pre = heap /\ post = heap
    /\ ret = <<>> /\ op = "init" /\ pick = 0
    /\ LayoutIdle /\ ModIdle

AllToAll ==
    /\ op = "init"
    /\ LET r == all_to_all_simulator(heap, args[1], args[2])
       IN  /\ heap' = r.heap
           /\ post' = r.heap
           /\ ret' = r.ret
    /\ op' = "all_to_all"
    /\ UNCHANGED <<pre, args, pick, layout, modVars>>

NextA2A == AllToAll

SpecA2A == InitA2A /\ [][NextA2A]_vars

----------------------------------------------------------------------------
\* Properties of the simulators.

\* The dims of legal_sharding_dims that may be appended to shard_list.
Passing(shard_list, dims) ==
    SelectSeq(dims, LAMBDA dim : shard_list = <<>> \/ dim > Last(shard_list))

\* C1: for a non-empty strictly increasing shard_list, all_gather_simulator
\* returns the list with its last element removed, the other elements kept
\* in order, and the returned list is strictly increasing.
C1_AllGatherDropsLast ==
    (op = "all_gather" /\ pre[1] # <<>> /\ StrictlyIncreasing(pre[1])) =>
        LET inp == pre[1]
            out == heap[ret[1]]
        IN  /\ Len(out) = Len(inp) - 1
            /\ \A i \in 1..Len(out) : out[i] = inp[i]
            /\ StrictlyIncreasing(out)

C1_Witness ==
    /\ op = "all_gather"
    /\ pre[1] = <<0, 1>>
    /\ heap[ret[1]] = <<0>>

\* C2: for a strictly increasing shard_list, shard_simulator returns exactly
\* the lists shard_list + [dim], one for each dim of legal_sharding_dims that
\* passes the ordering test, in the order of legal_sharding_dims; each
\* returned list is strictly increasing.
C2_ShardEnumeratesPassing ==
    (op = "shard" /\ StrictlyIncreasing(pre[1])) =>
        LET want == Passing(pre[1], pre[2])
        IN  /\ Len(ret) = Len(want)
            /\ \A k \in 1..Len(ret) :
                   /\ heap[ret[k]] = pre[1] \o <<want[k]>>
                   /\ StrictlyIncreasing(heap[ret[k]])

C2_Witness ==
    /\ op = "shard"
    /\ pre[1] = <<0>>
    /\ pre[2] = <<0, 1, 2>>
    /\ Len(ret) = 2
    /\ heap[ret[1]] = <<0, 1>>
    /\ heap[ret[2]] = <<0, 2>>

\* C3: all_to_all_simulator returns ([], f) when b is empty and (f + b, [])
\* when b is non-empty; one returned side holds all the axes of both inputs
\* and the other returned side is empty.
C3_AllToAllResult ==
    op = "all_to_all" =>
        LET f == pre[args[1][2]]
            b == pre[args[2][2]]
            rf == heap[ret[1]]
            rb == heap[ret[2]]
        IN  /\ b = <<>> => (rf = <<>> /\ rb = f)
            /\ b # <<>> => (rf = f \o b /\ rb = <<>>)
            /\ \/ rf = f \o b /\ rb = <<>>
               \/ rb = f \o b /\ rf = <<>>

C3_Witness ==
    /\ op = "all_to_all"
    /\ pre[args[1][2]] = <<0>>
    /\ pre[args[2][2]] = <<1>>
    /\ heap[ret[1]] = <<0, 1>>
    /\ heap[ret[2]] = <<>>

\* The axes used by a list.
AxesOf(s) == {s[i] : i \in 1..Len(s)}

\* C4: for strictly increasing front and back lists, both lists returned by
\* all_to_all_simulator are strictly increasing.  Stated for the inputs a
\* well-formed layout gives: two list objects that share no mesh axis.
C4_AllToAllKeepsIncreasing ==
    (/\ op = "all_to_all"
     /\ args[1][2] # args[2][2]
     /\ AxesOf(pre[args[1][2]]) \cap AxesOf(pre[args[2][2]]) = {}
     /\ StrictlyIncreasing(pre[args[1][2]])
     /\ StrictlyIncreasing(pre[args[2][2]])) =>
        /\ StrictlyIncreasing(heap[ret[1]])
        /\ StrictlyIncreasing(heap[ret[2]])

\* C5: gathering any candidate returned by shard_simulator for a strictly
\* increasing shard_list gives back the original shard_list.
C5_GatherUndoesShard ==
    (op = "round_trip" /\ StrictlyIncreasing(pre[1])) =>
        heap[ret[1]] = pre[1]

C5_Witness ==
    /\ op = "round_trip"
    /\ pre[1] = <<0>>
    /\ pre[2] = <<0, 1, 2>>
    /\ pick = 2
    /\ post[Len(post)] = <<0, 2>>
    /\ heap[ret[1]] = <<0>>

\* C6: after all_to_all_simulator the caller's front list and the caller's
\* back list hold the elements they held before the call.
C6_AllToAllInputsReadOnly ==
    op = "all_to_all" =>
        /\ heap[args[1][2]] = pre[args[1][2]]
        /\ heap[args[2][2]] = pre[args[2][2]]

\* C7: shard_simulator and all_gather_simulator leave shard_list and
\* legal_sharding_dims unchanged, every returned list is a new object, and
\* changing one returned list changes no input and no other returned list.
C7_ShardGatherNoSideEffect ==
    op \in {"all_gather", "shard", "changed", "round_trip"} =>
        /\ heap[1] = pre[1]
        /\ heap[2] = pre[2]
        /\ op # "round_trip" =>
               \A k \in 1..Len(ret) :
                   /\ ret[k] > Len(pre)
                   /\ \A j \in 1..Len(ret) : j # k => ret[j] # ret[k]
                   /\ (op = "changed" /\ k = pick) \/ heap[ret[k]] = post[ret[k]]

C7_Witness ==
    /\ op = "changed"
    /\ Len(ret) >= 2
    /\ pick = 1
    /\ pre[1] # <<>>
    /\ heap[ret[1]] # post[ret[1]]
    /\ heap[ret[2]] = post[ret[2]]

----------------------------------------------------------------------------
\* The layout transition system over two tensor dimensions: layout[d + 1] is
\* the shard list of tensor dimension d.  Each step replaces lists by the
\* lists a simulator returns.

\* The content of the list all_gather_simulator returns for (d, s).
GatherValue(d, s) ==
    LET r == all_gather_simulator(<<s>>, <<d, 1>>)
    IN  r.heap[r.ret]

\* The contents of the lists shard_simulator returns for (d, s) and dims.
ShardValues(d, s, dims) ==
    LET r == shard_simulator(<<s, dims>>, <<d, 1>>, 2)
    IN  [k \in 1..Len(r.ret) |-> r.heap[r.ret[k]]]

\* The contents of the two lists all_to_all_simulator returns.
AllToAllValues(i, f, j, b) ==
    LET r == all_to_all_simulator(<<f, b>>, <<i, 1>>, <<j, 2>>)
    IN  <<r.heap[r.ret[1]], r.heap[r.ret[2]]>>

InitLayout ==
    /\ layout = <<<<>>, <<>>>>
    /\ op = "init"
    /\ SimIdle /\ ModIdle

LayoutShard ==
    /\ \E d \in TensorDims, dims \in Lists(MaxDims) :
           LET out == ShardValues(d, layout[d + 1], dims)
           IN  \E k \in 1..Len(out) :
                   layout' = [layout EXCEPT ![d + 1] = out[k]]
    /\ op' = "shard"
    /\ UNCHANGED <<simVars, modVars>>

LayoutGather ==
    /\ \E d \in TensorDims :
           /\ layout[d + 1] # <<>>
           /\ layout' = [layout EXCEPT ![d + 1] = GatherValue(d, @)]
    /\ op' = "all_gather"
    /\ UNCHANGED <<simVars, modVars>>

LayoutAllToAll ==
    /\ \E i \in TensorDims : \E j \in TensorDims \ {i} :
           /\ layout[i + 1] = <<>> \/ layout[j + 1] = <<>>
           /\ LET out == AllToAllValues(i, layout[i + 1], j, layout[j + 1])
              IN  layout' = [layout EXCEPT ![i + 1] = out[1], ![j + 1] = out[2]]
    /\ op' = "all_to_all"
    /\ UNCHANGED <<simVars, modVars>>

NextLayout == LayoutShard \/ LayoutGather \/ LayoutAllToAll

SpecLayout == InitLayout /\ [][NextLayout]_vars

\* C10: in the layout transition system that starts with both shard lists
\* empty and uses all_to_all_simulator only when one of the two lists is
\* empty, both shard lists are strictly increasing in every reachable state.
C10_LayoutsStayIncreasing ==
    Len(layout) = 2 =>
        /\ StrictlyIncreasing(layout[1])
        /\ StrictlyIncreasing(layout[2])

C10_Witness ==
    /\ op = "all_to_all"
    /\ layout = <<<<>>, <<0, 1>>>>

----------------------------------------------------------------------------
\* nn.Module objects.  Module 1 may hold module 2 as its child "sub"; each
\* module holds at most one object under the name "w".  attrs[m] is that
\* object: its class (kind), whether is_contiguous() answers True, its
\* identity (id) and, for a ColoTensor built by _convert_tensor, the identity
\* of the tensor it wraps (of).  An nn.Parameter lives in _parameters, every
\* other object in the module's __dict__.

Mods == {1, 2}

Val(k, c, i, o) == [kind |-> k, contiguous |-> c, id |-> i, of |-> o]

Absent == Val("absent", FALSE, 0, 0)

ModuleVal(m) == Val("module", FALSE, 0, 0)

InitValues(i) ==
    {Absent, Val("other", FALSE, i, 0)}
        \cup {Val(k, c, i, 0) : k \in {"tensor", "param", "colo"}, c \in BOOLEAN}

\* Strings are sequences of tokens; "." is the token <<".">>.
W == <<"w">>
Sub == <<"sub">>
Prefixes == {<<>>, <<"p">>}
ParamNames == {W, Sub}

\* prefix + ('.' if prefix else '') + name
Join(prefix, name) == prefix \o (IF prefix # <<>> THEN <<".">> ELSE <<>>) \o name

StartsWith(s, p) == Len(s) >= Len(p) /\ SubSeq(s, 1, Len(p)) = p

\* hasattr(module, name)
HasAttr(a, module, name) ==
    \/ name = W /\ a[module] # Absent
    \/ name = Sub /\ module = 1 /\ hasChild

\* getattr(module, name)
GetAttr(a, module, name) == IF name = W THEN a[module] ELSE ModuleVal(2)

\* isinstance(val, torch.Tensor).  Whether ColoTensor derives from
\* torch.Tensor is decided outside this file: either answer is possible.
IsTensor(val) ==
    \/ val.kind \in {"tensor", "param"}
    \/ val.kind = "colo" /\ coloIsTensor

\* _convert_tensor(tensor): ColoTensor(tensor), a new object.
ConvertTensor(tensor, newId) == Val("colo", tensor.contiguous, newId, tensor.id)

DelAttr(a, module, name) == [a EXCEPT ![module] = Absent]

SetAttr(a, module, name, val) == [a EXCEPT ![module] = val]

\* mutation of convert_parameter: the attribute is deleted before the
\* contiguity check
ConvertParameterDeleteEarly(a, newId, module, param_name) ==
    IF ~HasAttr(a, module, param_name)
    THEN [err |-> "missing", attrs |-> a, log |-> <<>>, nextId |-> newId]
    ELSE LET tensor == GetAttr(a, module, param_name)
         IN  IF ~IsTensor(tensor)
             THEN [err |-> "not_tensor", attrs |-> a, log |-> <<>>,
                   nextId |-> newId]
             ELSE LET a1 == DelAttr(a, module, param_name)
                  IN  IF ~tensor.contiguous
                      THEN [err |-> "not_contiguous", attrs |-> a1,
                            log |-> <<"delattr">>, nextId |-> newId]
                      ELSE [err |-> "none",
                            attrs |-> SetAttr(a1, module, param_name,
                                              ConvertTensor(tensor, newId)),
                            log |-> <<"delattr", "setattr">>,
                            nextId |-> newId + 1]

\* convert_parameter(module, param_name) on the attribute table a.  err is
\* the ValueError raised ("none": the call returned), log the attribute
\* writes done.
convert_parameter(a, newId, module, param_name) ==
    IF ~HasAttr(a, module, param_name)
    THEN [err |-> "missing", attrs |-> a, log |-> <<>>, nextId |-> newId]
    ELSE LET tensor == GetAttr(a, module, param_name)
         IN  IF ~IsTensor(tensor)
             THEN [err |-> "not_tensor", attrs |-> a, log |-> <<>>,
                   nextId |-> newId]
             ELSE IF ~tensor.contiguous
             THEN [err |-> "not_contiguous", attrs |-> a, log |-> <<>>,
                   nextId |-> newId]
             ELSE LET st == ConvertTensor(tensor, newId)
                      a1 == DelAttr(a, module, param_name)
                      a2 == SetAttr(a1, module, param_name, st)
                  IN  [err |-> "none", attrs |-> a2,
                       log |-> <<"delattr", "setattr">>,
                       nextId |-> newId + 1]

\* module.named_modules(prefix): the module, then its children's modules.
RECURSIVE NamedModules(_, _)
NamedModules(module, prefix) ==
    <<<<prefix, module>>>>
        \o (IF module = 1 /\ hasChild
            THEN NamedModules(2, Join(prefix, Sub))
            ELSE <<>>)

\* A generator g = named_params_with_colotensor(module, prefix, recurse).
\* The call runs no line of the body; each next(g) runs the body from where
\* it was suspended to the next yield.  state is where g stands: "created"
\* (not started), "colo" (suspended at the yield of the first loop, inside
\* the iteration of vars(mod) of modules[i]), "params" (suspended at the
\* yield inside module.named_parameters(), inside the iteration of the
\* _parameters of its i-th module), "done" (exhausted) or "error" (it raised
\* RuntimeError).  memo is the memo of the first loop, pmemo the one
\* named_parameters keeps; dirty says that the dictionary g is iterating
\* was written to while g was suspended.  NoGen: no generator was made.
NewGen(module, prefix, recurse) ==
    [state |-> "created", module |-> module, prefix |-> prefix,
     recurse |-> recurse, i |-> 0, memo |-> {}, pmemo |-> {}, dirty |-> FALSE]

\* modules = module.named_modules(prefix=prefix) if recurse else [(prefix, module)]
ModulesOf(g) ==
    IF g.recurse THEN NamedModules(g.module, g.prefix)
    ELSE <<<<g.prefix, g.module>>>>

\* The modules module.named_parameters() walks: named from '', recursively.
ParamModulesOf(g) == NamedModules(g.module, <<>>)

\* module.named_parameters() run from its j-th module on, on the attributes
\* a as they are now: the next nn.Parameter not in pmemo is yielded;
\* without one the generator is exhausted.
RECURSIVE ResumeParams(_, _, _)
ResumeParams(a, g, j) ==
    IF j > Len(ParamModulesOf(g))
    THEN [gen |-> [g EXCEPT !.state = "done", !.dirty = FALSE], item |-> <<>>]
    ELSE LET module_prefix == ParamModulesOf(g)[j][1]
             val == a[ParamModulesOf(g)[j][2]]
         IN  IF val.kind = "param" /\ val.id \notin g.pmemo
             THEN [gen  |-> [g EXCEPT !.state = "params", !.i = j,
                                      !.pmemo = @ \cup {val.id},
                                      !.dirty = FALSE],
                   item |-> <<<<Join(module_prefix, W), val>>>>]
             ELSE ResumeParams(a, g, j + 1)

\* The first loop run from modules[j] on, on the attributes a as they are
\* now: the next ColoTensor of a vars(mod) not in memo is yielded; without
\* one the body goes on to module.named_parameters().
RECURSIVE ResumeColo(_, _, _)
ResumeColo(a, g, j) ==
    IF j > Len(ModulesOf(g))
    THEN ResumeParams(a, g, 1)
    ELSE LET mod_prefix == ModulesOf(g)[j][1]
             val == a[ModulesOf(g)[j][2]]
         IN  IF val.kind = "colo" /\ val.id \notin g.memo
             THEN [gen  |-> [g EXCEPT !.state = "colo", !.i = j,
                                      !.memo = @ \cup {val.id},
                                      !.dirty = FALSE],
                   item |-> <<<<Join(mod_prefix, W), val>>>>]
             ELSE ResumeColo(a, g, j + 1)

\* next(g) raising RuntimeError out of a dictionary iterator.
Raised(g) ==
    [gen |-> [g EXCEPT !.state = "error", !.dirty = FALSE], item |-> <<>>]

\* The outcomes of next(g).  A dictionary written to while it is iterated
\* either raises RuntimeError from its iterator or goes on, which of the two
\* depending on the kind and layout of the dictionary: after delattr and
\* setattr of "w" in the vars(mod) under iteration the iterator raises
\* ("dictionary keys changed during iteration") or goes on past the entry;
\* after the removal of "w" from the _parameters under iteration it raises
\* (dict) or ends (OrderedDict, already past its last key).
NextOutcomes(a, g) ==
    IF g.state = "created" THEN {ResumeColo(a, g, 1)}
    ELSE IF g.state = "colo"
    THEN IF g.dirty
         THEN {Raised(g), ResumeColo(a, g, g.i + 1)}
         ELSE {ResumeColo(a, g, g.i + 1)}
    ELSE IF g.dirty
         THEN {Raised(g), ResumeParams(a, g, g.i + 1)}
         ELSE {ResumeParams(a, g, g.i + 1)}

\* The module whose dictionary the suspended generator g is iterating.
Iterating(g) ==
    IF g.state = "colo" THEN {ModulesOf(g)[g.i][2]}
    ELSE IF g.state = "params" THEN {ParamModulesOf(g)[g.i][2]}
    ELSE {}

InitMod ==
    /\ \E v1 \in InitValues(1) :
           \E v2 \in InitValues(2) \cup {v1} :
               attrs = [m \in Mods |-> IF m = 1 THEN v1 ELSE v2]
    /\ hasChild \in BOOLEAN
    /\ coloIsTensor \in BOOLEAN
    /\ nextId = 3
    /\ call = <<>> /\ preAttrs = attrs /\ log = <<>> /\ yielded = <<>>
    /\ gen = NoGen /\ genAttrs = attrs
    /\ op = "init"
    /\ SimIdle /\ LayoutIdle

ConvertParameter ==
    /\ nextId <= MaxId
    /\ \E module \in Mods, param_name \in ParamNames :
           LET r == convert_parameter(attrs, nextId, module, param_name)
           IN  /\ attrs' = r.attrs
               /\ nextId' = r.nextId
               /\ log' = r.log
               /\ call' = [module |-> module, param_name |-> param_name,
                           err |-> r.err]
               /\ gen' = IF r.err = "none" /\ module \in Iterating(gen)
                         THEN [gen EXCEPT !.dirty = TRUE]
                         ELSE gen
    /\ preAttrs' = attrs
    /\ op' = "convert_parameter"
    /\ UNCHANGED <<simVars, layout, hasChild, coloIsTensor, yielded, genAttrs>>

\* g = named_params_with_colotensor(module, prefix, recurse)
NamedParamsCall ==
    /\ gen.state = "none"
    /\ \E module \in Mods, prefix \in Prefixes, recurse \in BOOLEAN :
           gen' = NewGen(module, prefix, recurse)
    /\ yielded' = <<>>
    /\ genAttrs' = attrs
    /\ op' = "named_params_with_colotensor"
    /\ UNCHANGED <<simVars, layout, attrs, hasChild, coloIsTensor, nextId,
                   call, preAttrs, log>>

\* next(g)
NamedParamsNext ==
    /\ gen.state \in {"created", "colo", "params"}
    /\ \E r \in NextOutcomes(attrs, gen) :
           /\ gen' = r.gen
           /\ yielded' = yielded \o r.item
    /\ op' = "next"
    /\ UNCHANGED <<simVars, layout, attrs, hasChild, coloIsTensor, nextId,
                   call, preAttrs, log, genAttrs>>

NextMod == ConvertParameter \/ NamedParamsCall \/ NamedParamsNext

SpecMod == InitMod /\ [][NextMod]_vars

\* C8: convert_parameter raises for a missing attribute, then for a
\* non-tensor, then for a non-contiguous tensor; a call that raises leaves
\* the attributes as they were and writes nothing; a call that passes the
\* three checks deletes the attribute and then sets it to the wrapped handle,
\* which is not the original tensor.
C8_ConvertParameterChecks ==
    op = "convert_parameter" =>
        LET m == call.module
            n == call.param_name
            old == GetAttr(preAttrs, m, n)
            has == HasAttr(preAttrs, m, n)
        IN  /\ ~has => call.err = "missing"
            /\ (has /\ ~IsTensor(old)) => call.err = "not_tensor"
            /\ (has /\ IsTensor(old) /\ ~old.contiguous) =>
                   call.err = "not_contiguous"
            /\ call.err # "none" => (attrs = preAttrs /\ log = <<>>)
            /\ (has /\ IsTensor(old) /\ old.contiguous) =>
                   /\ call.err = "none"
                   /\ log = <<"delattr", "setattr">>
                   /\ attrs[m].kind = "colo"
                   /\ attrs[m].of = old.id
                   /\ attrs[m].id # old.id
                   /\ \A o \in Mods \ {m} : attrs[o] = preAttrs[o]

C8_Witness ==
    /\ op = "convert_parameter"
    /\ call.err = "none"
    /\ preAttrs[call.module].kind = "param"
    /\ attrs[call.module].kind = "colo"
    /\ attrs[call.module].of = preAttrs[call.module].id
    /\ log = <<"delattr", "setattr">>

\* The modules of the tree rooted at module: the module and its submodules.
TreeOf(module) == {module} \cup (IF module = 1 /\ hasChild THEN {2} ELSE {})

\* C9: named_params_with_colotensor yields, when recurse is False, only
\* parameters and ColoTensors that are direct members of the module, when
\* recurse is True those of the module and all its submodules, and every
\* yielded name starts with prefix.  The members are compared for a
\* generator run to its end on a module that was not changed meanwhile.
C9_NamedParamsPrefixAndRecurse ==
    gen.state # "none" =>
        LET m == gen.module
            own == IF gen.recurse THEN TreeOf(m) ELSE {m}
        IN  /\ \A k \in 1..Len(yielded) : StartsWith(yielded[k][1], gen.prefix)
            /\ (gen.state = "done" /\ attrs = genAttrs) =>
                   /\ \A k \in 1..Len(yielded) :
                          \E o \in own : attrs[o] = yielded[k][2]
                   /\ \A o \in own :
                          attrs[o].kind \in {"param", "colo"} =>
                              \E k \in 1..Len(yielded) : yielded[k][2] = attrs[o]

====
